---- MODULE Spec2Model ----
(***************************************************************************)
(* Roborock sensor platform (custom_components/roborock/sensor.py).        *)
(*                                                                         *)
(* The coordinator owns a per-device status snapshot.  async_setup_entry   *)
(* builds one RoborockSensor per (device, descriptor) whose parent data is *)
(* truthy; every later refresh notifies each sensor, whose                 *)
(* _handle_coordinator_update re-extracts its value and publishes it when  *)
(* it is truthy.                                                           *)
(*                                                                         *)
(* Python values are records [t, n, d]: t is the Python type (or the name  *)
(* of a raised exception), n/d an integer or an exact fraction n/d.        *)
(***************************************************************************)
EXTENDS Integers, Sequences, FiniteSets, TLC

VARIABLES
    data,          \* coordinator.data: device id -> entry (present or not)
    tz,            \* UTC offset of the host's local time zone, in seconds
    now,           \* wall clock, epoch seconds
    phase,         \* "init" | "ready" | "setup_failed"
    entities,      \* the list handed to async_add_entities, in order
    native_value,  \* _attr_native_value of every sensor
    attrs,         \* _attr_extra_state_attributes of every sensor
    writes,        \* number of async_write_ha_state calls of every sensor
    queue,         \* listeners still to be notified of the current refresh
    seen,          \* history: sensors some extraction of which was truthy
    last           \* history: what the most recent module operation did;
                   \* a refresh resets it, so it always speaks of the
                   \* snapshot currently in data

vars == <<data, tz, now, phase, entities, native_value, attrs, writes,
          queue, seen, last>>

----------------------------------------------------------------------------
(* Bounds and environment *)

MaxRefresh == 2

SecondsPerDay == 24 * 60 * 60
PollInterval == 30 * 60
StartTime == 20 * SecondsPerDay + 23 * 3600
TzOffsets == {0 - 3600, 7200}

Devices == {"d1", "d2"}
device_map == <<"d1", "d2">>

----------------------------------------------------------------------------
(* Python values *)

Exceptions == {"AttributeError", "TypeError", "ValueError"}

NoneV == [t |-> "None", n |-> 0, d |-> 1]
IntV(i) == [t |-> "int", n |-> i, d |-> 1]
FloatV(num, den) == [t |-> "float", n |-> num, d |-> den]
DatetimeV(epoch) == [t |-> "datetime", n |-> epoch, d |-> 1]
ListV(items) == [t |-> "list", items |-> items]
Raise(exc) == [t |-> exc, n |-> 0, d |-> 1]
Unset == [t |-> "unset", n |-> 0, d |-> 1]

IsRaise(v) == v.t \in Exceptions

\* Python truthiness, as used by `if native_value:` and `if not parent_key_data:`
Truthy(v) ==
    CASE v.t = "None" -> FALSE
      [] v.t = "int" -> v.n # 0
      [] v.t = "float" -> v.n # 0
      [] v.t = "datetime" -> TRUE
      [] v.t = "list" -> Len(v.items) > 0
      [] v.t = "obj" -> v.keys # {}
      [] OTHER -> FALSE

RECURSIVE GCD(_, _)
GCD(a, b) == IF b = 0 THEN a ELSE GCD(b, a % b)

\* int / int true division, kept as an exact fraction in lowest terms
TrueDiv(a, b) == LET g == GCD(a, b) IN FloatV(a \div g, b \div g)

----------------------------------------------------------------------------
(* The device status structure (api.containers, api.typing) *)

PropFields == {"status", "dnd_timer", "clean_summary", "consumable",
               "last_clean_record"}

NoneObj == [t |-> "None", keys |-> {}, v |-> <<>>]
Obj(keys, v) == [t |-> "obj", keys |-> keys, v |-> v]

\* coordinator.data.get(device_id)
CoordinatorDataGet(d, dev) == d[dev]

\* getattr(entry, parent_key) on the device's entry (None when absent)
GetProp(entry, parent_key) ==
    IF ~entry.present THEN Raise("AttributeError") ELSE entry[parent_key]

\* getattr(container, key): a field of a container reads None when unset
GetAttr(obj, key) ==
    IF obj.t = "None" THEN Raise("AttributeError")
    ELSE IF key \in obj.keys THEN obj.v[key] ELSE NoneV

\* hasattr(entry, attr)
HasAttr(entry, attr) == entry.present /\ attr \in PropFields

----------------------------------------------------------------------------
(* The descriptor table *)

NoKey == ""
AreaScale == 1000000

RoborockSensorDescription(key, keys, value, device_class, parent_key) ==
    [key |-> key, keys |-> keys, value |-> value,
     device_class |-> device_class, parent_key |-> parent_key,
     attributes |-> <<>>]

dnd_start ==
    RoborockSensorDescription("start", <<"start_hour", "start_minute">>,
                              "dnd", "timestamp", "dnd_timer")
dnd_end ==
    RoborockSensorDescription("end", <<"end_hour", "end_minute">>,
                              "dnd", "timestamp", "dnd_timer")
last_clean_start ==
    RoborockSensorDescription("begin", <<>>, "", "timestamp",
                              "last_clean_record")
last_clean_end ==
    RoborockSensorDescription("end", <<>>, "", "timestamp",
                              "last_clean_record")
last_clean_duration ==
    RoborockSensorDescription("duration", <<>>, "", "duration",
                              "last_clean_record")
last_clean_area ==
    RoborockSensorDescription("area", <<>>, "area", "", "last_clean_record")
current_clean_time ==
    RoborockSensorDescription("clean_time", <<>>, "", "duration", "status")
current_area ==
    RoborockSensorDescription("clean_area", <<>>, "area", "", "status")
clean_history_total_duration ==
    RoborockSensorDescription("clean_time", <<>>, "", "duration",
                              "clean_summary")
clean_history_total_area ==
    RoborockSensorDescription("clean_area", <<>>, "area", "", "clean_summary")
clean_history_count ==
    RoborockSensorDescription("clean_count", <<>>, "", "", "clean_summary")
clean_history_dust_collection_count_own_field ==
    RoborockSensorDescription("dust_collection_count", <<>>, "", "",
                              "clean_summary")
clean_history_dust_collection_count ==
    RoborockSensorDescription("clean_count", <<>>, "", "", "clean_summary")
consumable_main_brush_left ==
    RoborockSensorDescription("main_brush_work_time", <<>>, "", "duration",
                              "consumable")
consumable_side_brush_left ==
    RoborockSensorDescription("side_brush_work_time", <<>>, "", "duration",
                              "consumable")
consumable_filter_left ==
    RoborockSensorDescription("filter_work_time", <<>>, "", "duration",
                              "consumable")
consumable_sensor_dirty_left ==
    RoborockSensorDescription("sensor_dirty_time", <<>>, "", "duration",
                              "consumable")

VACUUM_SENSORS ==
    [dnd_start |-> dnd_start,
     dnd_end |-> dnd_end,
     last_clean_start |-> last_clean_start,
     last_clean_end |-> last_clean_end,
     last_clean_duration |-> last_clean_duration,
     last_clean_area |-> last_clean_area,
     current_clean_time |-> current_clean_time,
     current_area |-> current_area,
     clean_history_total_duration |-> clean_history_total_duration,
     clean_history_total_area |-> clean_history_total_area,
     clean_history_count |-> clean_history_count,
     clean_history_dust_collection_count |-> clean_history_dust_collection_count,
     consumable_main_brush_left |-> consumable_main_brush_left,
     consumable_side_brush_left |-> consumable_side_brush_left,
     consumable_filter_left |-> consumable_filter_left,
     consumable_sensor_dirty_left |-> consumable_sensor_dirty_left]

\* VACUUM_SENSORS.items() iterates in insertion order
SensorOrder ==
    <<"dnd_start", "dnd_end", "last_clean_start", "last_clean_end",
      "last_clean_duration", "last_clean_area", "current_clean_time",
      "current_area", "clean_history_total_duration",
      "clean_history_total_area", "clean_history_count",
      "clean_history_dust_collection_count", "consumable_main_brush_left",
      "consumable_side_brush_left", "consumable_filter_left",
      "consumable_sensor_dirty_left">>

SensorKeys == {SensorOrder[i] : i \in 1..Len(SensorOrder)}
Sensors == Devices \X SensorKeys

----------------------------------------------------------------------------
(* Value transforms *)

\* variant: the area scaled by a thousand
AreaValueWrongScale(value) == TrueDiv(value.n, 1000)

\* lambda value: value / 1000000
AreaValue(value) == TrueDiv(value.n, AreaScale)

\* device.parse_datetime_time: today's local h:m as an epoch timestamp
\* (whole seconds; daylight-saving shifts are not modelled)
parse_datetime_time(h, m, clock, offset) ==
    LET midnight == ((clock + offset) \div SecondsPerDay) * SecondsPerDay
    IN  FloatV(midnight + h * 3600 + m * 60 - offset, 1)

\* lambda values: parse_datetime_time(time(hour=values[0], minute=values[1]))
DndValue(values, clock, offset) ==
    LET hour == values.items[1]
        minute == values.items[2]
    IN  IF hour.t # "int" \/ minute.t # "int" THEN Raise("TypeError")
        ELSE IF hour.n \notin 0..23 \/ minute.n \notin 0..59
             THEN Raise("ValueError")
        ELSE parse_datetime_time(hour.n, minute.n, clock, offset)

\* self.entity_description.value(native_value)
ApplyValue(value, native, clock, offset) ==
    IF value = "area" THEN AreaValue(native)
    ELSE DndValue(native, clock, offset)

\* datetime.fromtimestamp(x): the naive local time of epoch x
FromTimestamp(x, offset) == [naive |-> (x.n \div x.d) + offset]

\* naive.astimezone(dt_util.UTC): the naive value is read as local time
AsTimezoneUTC(dt, offset) == DatetimeV(dt.naive - offset)

----------------------------------------------------------------------------
(* Status snapshots the coordinator may deliver for one device *)

Status(clean_time, clean_area) ==
    Obj({"clean_time", "clean_area"},
        [clean_time |-> clean_time, clean_area |-> clean_area])

DNDTimer(start_hour, start_minute, end_hour, end_minute) ==
    Obj({"start_hour", "start_minute", "end_hour", "end_minute"},
        [start_hour |-> start_hour, start_minute |-> start_minute,
         end_hour |-> end_hour, end_minute |-> end_minute])

CleanSummary(clean_time, clean_area, clean_count, dust_collection_count) ==
    Obj({"clean_time", "clean_area", "clean_count", "dust_collection_count"},
        [clean_time |-> clean_time, clean_area |-> clean_area,
         clean_count |-> clean_count,
         dust_collection_count |-> dust_collection_count])

Consumable(main_brush, side_brush, filter, sensor_dirty) ==
    Obj({"main_brush_work_time", "side_brush_work_time", "filter_work_time",
         "sensor_dirty_time"},
        [main_brush_work_time |-> main_brush,
         side_brush_work_time |-> side_brush,
         filter_work_time |-> filter, sensor_dirty_time |-> sensor_dirty])

CleanRecord(begin, end, duration, area) ==
    Obj({"begin", "end", "duration", "area"},
        [begin |-> begin, end |-> end, duration |-> duration, area |-> area])

EmptyObj == Obj({}, <<>>)

RoborockDeviceProp(status, dnd_timer, summary, consumable, record) ==
    [present |-> TRUE, status |-> status, dnd_timer |-> dnd_timer,
     clean_summary |-> summary, consumable |-> consumable,
     last_clean_record |-> record]

\* the device id is no key of coordinator.data
NoEntry ==
    [present |-> FALSE, status |-> NoneObj, dnd_timer |-> NoneObj,
     clean_summary |-> NoneObj, consumable |-> NoneObj,
     last_clean_record |-> NoneObj]

SnapGood ==
    RoborockDeviceProp(
        Status(IntV(120), IntV(2500000)),
        DNDTimer(IntV(22), IntV(30), IntV(8), IntV(0)),
        CleanSummary(IntV(3600), IntV(7500000), IntV(5), IntV(2)),
        Consumable(IntV(100), IntV(200), IntV(300), IntV(400)),
        CleanRecord(IntV(1000000), IntV(1003600), IntV(3600), IntV(1)))

SnapGood2 ==
    RoborockDeviceProp(
        Status(IntV(60), IntV(1000000)),
        DNDTimer(IntV(23), IntV(59), IntV(0), IntV(0)),
        CleanSummary(IntV(7200), IntV(3000000), IntV(6), IntV(3)),
        Consumable(IntV(101), IntV(201), IntV(301), IntV(401)),
        CleanRecord(IntV(2000000), IntV(2000060), IntV(60), IntV(2500000)))

SnapZero ==
    RoborockDeviceProp(
        Status(IntV(0), IntV(0)),
        DNDTimer(IntV(0), IntV(0), IntV(0), IntV(0)),
        CleanSummary(IntV(0), IntV(0), IntV(0), IntV(0)),
        Consumable(IntV(0), IntV(0), IntV(0), IntV(0)),
        CleanRecord(IntV(0), IntV(0), IntV(0), IntV(0)))

SnapFieldsNone ==
    RoborockDeviceProp(
        Status(NoneV, NoneV),
        DNDTimer(NoneV, NoneV, IntV(23), IntV(59)),
        CleanSummary(NoneV, NoneV, NoneV, IntV(4)),
        Consumable(NoneV, NoneV, NoneV, NoneV),
        CleanRecord(NoneV, NoneV, NoneV, NoneV))

SnapPartial ==
    RoborockDeviceProp(
        Status(NoneV, IntV(1)),
        NoneObj,
        CleanSummary(IntV(10), NoneV, NoneV, IntV(9)),
        Consumable(NoneV, IntV(0), IntV(5), NoneV),
        CleanRecord(NoneV, IntV(0), NoneV, IntV(0)))

SnapMixed ==
    RoborockDeviceProp(
        NoneObj,
        DNDTimer(IntV(22), IntV(30), IntV(8), IntV(0)),
        EmptyObj,
        Consumable(IntV(100), IntV(200), IntV(300), IntV(400)),
        NoneObj)

\* the entries the coordinator may hold for a device
Snapshots(dev) ==
    IF dev = "d1"
    THEN {NoEntry, SnapGood, SnapGood2, SnapZero, SnapFieldsNone,
          SnapPartial, SnapMixed}
    ELSE {NoEntry, SnapGood2}

----------------------------------------------------------------------------
(* RoborockSensor *)

\* [getattr(data, key) for key in keys]
GetAttrList(obj, keys) ==
    LET items == [i \in 1..Len(keys) |-> GetAttr(obj, keys[i])]
    IN  IF \E i \in 1..Len(keys) : IsRaise(items[i])
        THEN Raise("AttributeError")
        ELSE ListV(items)

\* variant: the epoch number returned as it is
TimestampValueRaw(native, offset) == native

\* the device_class == TIMESTAMP branch of _determine_native_value
TimestampValue(native, offset) ==
    AsTimezoneUTC(FromTimestamp(native, offset), offset)

\* RoborockSensor._determine_native_value
DetermineNativeValue(desc, d, dev, clock, offset) ==
    LET entry == CoordinatorDataGet(d, dev)
        obj == IF desc.parent_key # NoKey
               THEN GetProp(entry, desc.parent_key)
               ELSE entry
    IN  IF desc.parent_key # NoKey /\ IsRaise(obj) THEN obj
        ELSE
        LET fetched == IF desc.keys # <<>>
                       THEN GetAttrList(obj, desc.keys)
                       ELSE IF desc.parent_key # NoKey
                            THEN GetAttr(obj, desc.key)
                            ELSE GetProp(obj, desc.key)
        IN  IF IsRaise(fetched) THEN fetched
            ELSE
            LET native == IF desc.value # "" /\ Truthy(fetched)
                          THEN ApplyValue(desc.value, fetched, clock, offset)
                          ELSE fetched
            IN  IF IsRaise(native) THEN native
                ELSE IF desc.device_class = "timestamp" /\ Truthy(native)
                     THEN TimestampValue(native, offset)
                ELSE native

\* variant: value = getattr(data, attr)
ExtractAttributesValues(attributes, entry) ==
    {<<attributes[i], entry[attributes[i]]>> :
        i \in {j \in 1..Len(attributes) : HasAttr(entry, attributes[j])}}

\* RoborockSensor._extract_attributes: a set of (attribute, value) pairs
ExtractAttributes(attributes, entry) ==
    {<<attributes[i], NoneV>> :
        i \in {j \in 1..Len(attributes) : HasAttr(entry, attributes[j])}}

\* RoborockSensor.__init__: the new sensor, or the exception it raises
RoborockSensor(id, desc, d, clock, offset) ==
    LET nv == DetermineNativeValue(desc, d, id[1], clock, offset)
    IN  IF IsRaise(nv) THEN nv
        ELSE [t |-> "sensor", id |-> id, native_value |-> nv,
              attrs |-> ExtractAttributes(desc.attributes,
                                          CoordinatorDataGet(d, id[1]))]

----------------------------------------------------------------------------
(* async_setup_entry *)

\* the (device, sensor) pairs in the order the two nested loops visit them
Pairs ==
    [i \in 1..(Len(device_map) * Len(SensorOrder)) |->
        <<device_map[((i - 1) \div Len(SensorOrder)) + 1],
          SensorOrder[((i - 1) % Len(SensorOrder)) + 1]>>]

\* the parent data async_setup_entry tests for one pair
ParentKeyData(d, id) ==
    GetProp(CoordinatorDataGet(d, id[1]), VACUUM_SENSORS[id[2]].parent_key)

\* the loops of async_setup_entry from pair i on: the entities appended, or
\* the exception that ends the setup
RECURSIVE SetupLoop(_, _, _, _, _)
SetupLoop(i, acc, d, clock, offset) ==
    IF i > Len(Pairs) THEN [error |-> "", entities |-> acc]
    ELSE
    LET id == Pairs[i]
        parent_key_data == ParentKeyData(d, id)
    IN  IF IsRaise(parent_key_data)
        THEN [error |-> parent_key_data.t, entities |-> <<>>]
        ELSE IF ~Truthy(parent_key_data)
        THEN SetupLoop(i + 1, acc, d, clock, offset)
        ELSE
        LET sensor == RoborockSensor(id, VACUUM_SENSORS[id[2]], d, clock,
                                     offset)
        IN  IF IsRaise(sensor)
            THEN [error |-> sensor.t, entities |-> <<>>]
            ELSE SetupLoop(i + 1, Append(acc, sensor), d, clock, offset)

Ids(ents) == {ents[i].id : i \in 1..Len(ents)}
IdSeq(ents) == [i \in 1..Len(ents) |-> ents[i].id]
EntityOf(ents, id) == ents[CHOOSE i \in 1..Len(ents) : ents[i].id = id]

NoSensor == <<"", "">>

Idle ==
    [op |-> "idle", sensor |-> NoSensor, extracted |-> NoneV,
     result |-> "", before |-> Unset, attrs_before |-> {},
     writes_before |-> 0, error |-> ""]

Setup ==
    /\ phase = "init"
    /\ LET r == SetupLoop(1, <<>>, data, now, tz)
       IN  /\ IF r.error # ""
              THEN /\ phase' = "setup_failed"
                   /\ UNCHANGED <<entities, native_value, attrs, seen>>
              ELSE /\ phase' = "ready"
                   /\ entities' = IdSeq(r.entities)
                   /\ native_value' =
                        [s \in Sensors |->
                            IF s \in Ids(r.entities)
                            THEN EntityOf(r.entities, s).native_value
                            ELSE Unset]
                   /\ attrs' =
                        [s \in Sensors |->
                            IF s \in Ids(r.entities)
                            THEN EntityOf(r.entities, s).attrs
                            ELSE {}]
                   /\ seen' = {s \in Ids(r.entities) :
                                 Truthy(EntityOf(r.entities, s).native_value)}
           /\ last' = [Idle EXCEPT !.op = "setup", !.error = r.error]
    /\ UNCHANGED <<data, tz, now, writes, queue>>

----------------------------------------------------------------------------
(* The coordinator: a refresh replaces one device's entry and notifies the *)
(* listeners, one sensor after the other                                   *)

Refresh ==
    /\ queue = <<>>
    /\ now < StartTime + MaxRefresh * PollInterval
    /\ \E dev \in Devices : \E snap \in Snapshots(dev) :
          data' = [data EXCEPT ![dev] = snap]
    /\ now' = now + PollInterval
    /\ queue' = entities
    /\ last' = Idle
    /\ UNCHANGED <<tz, phase, entities, native_value, attrs, writes, seen>>

\* variant: coordinator.data.pop(device_id) in place of .get
DataAfterPop(d, dev) == [d EXCEPT ![dev] = NoEntry]

\* coordinator.data after the handler's coordinator.data.get(device_id)
DataAfterGet(d, dev) == d

\* variant: the test dropped, every extracted value is published
ShouldPublishAlways(native) == TRUE

\* variant: `if native_value is not None:`
ShouldPublishNotNone(native) == native # NoneV

\* the `if native_value:` test of _handle_coordinator_update
ShouldPublish(native) == Truthy(native)

\* RoborockSensor._handle_coordinator_update of the next listener.  When it
\* raises, the exception leaves the callback: the coordinator's notification
\* loop either goes on with the next listener or is abandoned.
HandleCoordinatorUpdate ==
    /\ queue # <<>>
    /\ LET self == Head(queue)
           desc == VACUUM_SENSORS[self[2]]
           nv == DetermineNativeValue(desc, data, self[1], now, tz)
           run == [Idle EXCEPT !.op = "update", !.sensor = self,
                               !.extracted = nv,
                               !.before = native_value[self],
                               !.attrs_before = attrs[self],
                               !.writes_before = writes[self]]
       IN  /\ IF IsRaise(nv)
              THEN /\ queue' \in {Tail(queue), <<>>}
                   /\ last' = [run EXCEPT !.result = "raised", !.error = nv.t]
                   /\ UNCHANGED <<native_value, attrs, writes>>
              ELSE IF ShouldPublish(nv)
              THEN /\ native_value' = [native_value EXCEPT ![self] = nv]
                   /\ attrs' = [attrs EXCEPT ![self] =
                                   ExtractAttributes(desc.attributes,
                                       CoordinatorDataGet(data, self[1]))]
                   /\ writes' = [writes EXCEPT ![self] = @ + 1]
                   /\ queue' = Tail(queue)
                   /\ last' = [run EXCEPT !.result = "published"]
              ELSE /\ queue' = Tail(queue)
                   /\ last' = [run EXCEPT !.result = "skipped"]
                   /\ UNCHANGED <<native_value, attrs, writes>>
           /\ seen' = IF ~IsRaise(nv) /\ Truthy(nv) THEN seen \cup {self}
                      ELSE seen
           /\ data' = DataAfterGet(data, self[1])
    /\ UNCHANGED <<tz, now, phase, entities>>

----------------------------------------------------------------------------

Init ==
    /\ data \in {d \in [Devices -> UNION {Snapshots(dev) : dev \in Devices}] :
                  \A dev \in Devices : d[dev] \in Snapshots(dev)}
    /\ tz \in TzOffsets
    /\ now = StartTime
    /\ phase = "init"
    /\ entities = <<>>
    /\ native_value = [s \in Sensors |-> Unset]
    /\ attrs = [s \in Sensors |-> {}]
    /\ writes = [s \in Sensors |-> 0]
    /\ queue = <<>>
    /\ seen = {}
    /\ last = Idle

Next == Setup \/ Refresh \/ HandleCoordinatorUpdate

Spec == Init /\ [][Next]_vars

----------------------------------------------------------------------------
(* Vocabulary of the properties *)

Created == {entities[i] : i \in 1..Len(entities)}
Pending == {queue[i] : i \in 1..Len(queue)}

\* the handler of last.sensor ran to completion on the current snapshot
Updated == last.op = "update" /\ last.result # "raised"

\* setup completed and no refresh has replaced the snapshot it read
SetUp == last.op = "setup" /\ phase = "ready"

\* the raw field a single-key descriptor names, in the current snapshot
RawField(id) ==
    LET desc == VACUUM_SENSORS[id[2]]
    IN  GetAttr(data[id[1]][desc.parent_key], desc.key)

\* the raw (hour, minute) pair a DnD descriptor names
RawPair(id) ==
    LET desc == VACUUM_SENSORS[id[2]]
        parent == data[id[1]][desc.parent_key]
    IN  <<GetAttr(parent, desc.keys[1]), GetAttr(parent, desc.keys[2])>>

\* the value the sensor's last extraction produced: its handler's, or after
\* setup the one its constructor published
ExtractedBy(id) ==
    IF last.op = "update" THEN last.extracted ELSE native_value[id]

\* the sensors whose extraction the current state records
Extractors ==
    IF Updated THEN {last.sensor} ELSE IF SetUp THEN Created ELSE {}

----------------------------------------------------------------------------
(* C1: when _handle_coordinator_update extracts None, the published native *)
(* value and extra attributes are what they were before the notification   *)
(* and no state write is issued.                                           *)
C1_NoneLeavesPublishedUnchanged ==
    (last.op = "update" /\ last.extracted = NoneV) =>
        /\ native_value[last.sensor] = last.before
        /\ attrs[last.sensor] = last.attrs_before
        /\ writes[last.sensor] = last.writes_before

\* a sensor with a published reading has just been notified of a None field
C1_Witness ==
    /\ last.op = "update"
    /\ last.extracted = NoneV
    /\ last.result = "skipped"
    /\ Truthy(last.before)

(* C2: whenever the extracted value is present (not None), a reading of 0  *)
(* included, the handler publishes exactly that value and issues one state *)
(* write.                                                                  *)
C2_PresentValueIsPublished ==
    (Updated /\ last.extracted # NoneV) =>
        /\ native_value[last.sensor] = last.extracted
        /\ writes[last.sensor] = last.writes_before + 1

(* C3: whatever the snapshot contains, the handler ends in a publish or a  *)
(* silent skip, never in an exception.                                     *)
C3_NoExceptions ==
    last.op = "update" => last.result \in {"published", "skipped"}

\* parent data present for the pair: the device has an entry whose parent
\* structure is neither None nor empty
ParentPresent(id) ==
    /\ data[id[1]].present
    /\ Truthy(data[id[1]][VACUUM_SENSORS[id[2]].parent_key])

(* C4: setup finishes without error and hands async_add_entities exactly   *)
(* one entity per (device, descriptor) pair whose parent data is present,  *)
(* a device without any status object included.                            *)
C4_SetupOmitsMissingParents ==
    last.op = "setup" =>
        /\ phase = "ready"
        /\ Created = {id \in Sensors : ParentPresent(id)}
        /\ Len(entities) = Cardinality(Created)

(* C5: no operation of the module changes coordinator.data, and a handler  *)
(* changes only its own sensor's published value and attributes.           *)
C5_ModuleOnlyReadsCoordinatorData ==
    [][ /\ (Setup \/ HandleCoordinatorUpdate) => data' = data
        /\ HandleCoordinatorUpdate =>
              \A s \in Sensors \ {Head(queue)} :
                  /\ native_value'[s] = native_value[s]
                  /\ attrs'[s] = attrs[s]
                  /\ writes'[s] = writes[s] ]_vars

\* a handler has published a value read from an entry that is still there
C5_Witness ==
    /\ last.op = "update"
    /\ last.result = "published"
    /\ data[last.sensor[1]].present
    /\ native_value[last.sensor] # last.before

AreaSensors == {"last_clean_area", "current_area", "clean_history_total_area"}

\* x is the fraction raw / 1000000 in lowest terms
IsScaledArea(x, raw) ==
    /\ x.t = "float"
    /\ AreaScale % x.d = 0
    /\ x.n * (AreaScale \div x.d) = raw
    /\ GCD(x.n, x.d) = 1

(* C6: an area descriptor extracts raw / 1,000,000 from every non-empty    *)
(* raw area (2_500_000 gives 2.5); a descriptor without transform that is  *)
(* no timestamp extracts the raw field unchanged.                          *)
C6_AreaScaledOthersRaw ==
    /\ {k \in SensorKeys : VACUUM_SENSORS[k].value = "area"} = AreaSensors
    /\ \A id \in Extractors :
          LET desc == VACUUM_SENSORS[id[2]]
          IN  /\ (id[2] \in AreaSensors /\ Truthy(RawField(id))) =>
                    /\ IsScaledArea(ExtractedBy(id), RawField(id).n)
                    /\ RawField(id).n = 2500000 =>
                          ExtractedBy(id) = FloatV(5, 2)
              /\ (desc.value = "" /\ desc.device_class # "timestamp") =>
                    ExtractedBy(id) = RawField(id)

\* the current clean area handler has turned raw 2_500_000 into 5/2
C6_Witness ==
    /\ Updated
    /\ last.sensor[2] = "current_area"
    /\ RawField(last.sensor) = IntV(2500000)
    /\ native_value[last.sensor] = FloatV(5, 2)
    /\ last.before # FloatV(5, 2)

\* x is an absolute time whose local time of day is hour:minute
IsTimeOfDay(x, hour, minute) ==
    /\ x.t = "datetime"
    /\ (x.n + tz) % SecondsPerDay = hour * 3600 + minute * 60

(* C7: a timestamp descriptor publishes a non-empty epoch as the absolute  *)
(* time of that instant, never as the raw number; a DnD pair (h, m) with   *)
(* 0 <= h <= 23 and 0 <= m <= 59, midnight included, is published as an    *)
(* absolute time at h:m.                                                   *)
C7_TimestampsPublishedAsTime ==
    \A id \in Extractors :
        LET desc == VACUUM_SENSORS[id[2]]
        IN  /\ (desc.device_class = "timestamp" /\ desc.keys = <<>>
                  /\ Truthy(RawField(id))) =>
                  /\ ExtractedBy(id) = DatetimeV(RawField(id).n)
                  /\ native_value[id] = ExtractedBy(id)
            /\ (desc.keys # <<>> /\ RawPair(id)[1].t = "int"
                  /\ RawPair(id)[2].t = "int"
                  /\ RawPair(id)[1].n \in 0..23
                  /\ RawPair(id)[2].n \in 0..59) =>
                  /\ desc.device_class = "timestamp"
                  /\ IsTimeOfDay(ExtractedBy(id), RawPair(id)[1].n,
                                 RawPair(id)[2].n)
                  /\ native_value[id] = ExtractedBy(id)

\* the DnD start handler has replaced 22:30 by midnight
C7_Witness ==
    /\ Updated
    /\ last.sensor[2] = "dnd_start"
    /\ RawPair(last.sensor) = <<IntV(0), IntV(0)>>
    /\ last.result = "published"
    /\ IsTimeOfDay(last.before, 22, 30)
    /\ IsTimeOfDay(native_value[last.sensor], 0, 0)

C9_DustCountEqualsCleanCount ==
    \A dev \in Devices :
        LET count == <<dev, "clean_history_count">>
            dust == <<dev, "clean_history_dust_collection_count">>
        IN  (count \in Created /\ dust \in Created
               /\ count \notin Pending /\ dust \notin Pending) =>
                native_value[dust] = native_value[count]

\* the dust sensor has published a count that differs from the snapshot's
\* dust collection field
C9_Witness ==
    /\ Updated
    /\ last.sensor[2] = "clean_history_dust_collection_count"
    /\ last.result = "published"
    /\ native_value[last.sensor] # last.before
    /\ LET summary == data[last.sensor[1]].clean_summary
       IN  /\ native_value[last.sensor] = summary.v.clean_count
           /\ summary.v.dust_collection_count # summary.v.clean_count

AttributeTuples ==
    {<<>>, <<"status">>, <<"status", "battery">>,
     <<"dnd_timer", "clean_summary">>}

====
